---- MODULE Spec2Model ----
(***************************************************************************)
(* Model of lib/IDE/AfterPoundExprCompletion.cpp: the collector of         *)
(* type-checker solutions for a completion after `#` in expression         *)
(* position (sawSolutionImpl) and the presenter that drives the            *)
(* CompletionLookup engine from the collected results (deliverResults).    *)
(***************************************************************************)
EXTENDS Integers, Sequences, FiniteSets, TLC

(* ---------------------------------------------------------------------- *)
(* Bounds of the model.                                                    *)
(* ---------------------------------------------------------------------- *)

\* Number of solutions the solver reports to one collector.
MaxSolutions == 2

\* Number of times deliverResults is run on one collector.
MaxDeliveries == 2

(* ---------------------------------------------------------------------- *)
(* Types.  A swift::Type is a nullable pointer to a TypeBase.  A TypeBase   *)
(* is identified here by its canonical type (canon) and by the sugar it    *)
(* is spelled with (sugar): Int and a typealias of Int are two TypeBase    *)
(* objects with one canonical type.                                        *)
(* ---------------------------------------------------------------------- *)

\* The null Type: the wrapper `Type` default-constructed, pointer 0.
NullType == [canon |-> 0, sugar |-> 0]

TyInt == [canon |-> 1, sugar |-> 0]

TyIntAlias == [canon |-> 1, sugar |-> 1]

TyString == [canon |-> 2, sugar |-> 0]

\* What getTypeForCompletion(S, CompletionExpr) can hand back (line 26):
\* a Type, null included (the function returns Type, a nullable wrapper).
TypeForCompletionRange == {TyInt, TyIntAlias, TyString, NullType}

\* One solution, seen through the three collaborator queries of
\* sawSolutionImpl: getTypeForCompletion, isContextAsync and
\* isImplicitSingleExpressionReturn.
Solutions ==
  [ty : TypeForCompletionRange, async : BOOLEAN, single : BOOLEAN]

\* The statement kinds the collector can be constructed with (ParentStmtKind).
StmtKinds == {"None", "If"}

VARIABLES
  Results,        \* SmallVector<Result>: the member Results
  ParentStmtKind, \* the member ParentStmtKind, set at construction
  fed,            \* history: the solutions passed to sawSolutionImpl so far
  crashed,        \* the process was ended by a null dereference
  pc,             \* position of control: "idle" or a line of deliverResults
  idx,            \* deliverResults: position of the range-for in Results
  calls,          \* deliverResults: the calls made on the local Lookup so far
  deliveries      \* number of completed deliverResults runs

vars == <<Results, ParentStmtKind, fed, crashed, pc, idx, calls, deliveries>>

(* ---------------------------------------------------------------------- *)
(* sawSolutionImpl                                                         *)
(* ---------------------------------------------------------------------- *)

\* TypeBase::isEqual as used by the lambda IsEqual (line 32): equality of
\* canonical types.  Defined for two non-null types only.
isEqual(This, Other) == This.canon = Other.canon

\* R.ExpectedTy->isEqual(ExpectedTy) dereferences R.ExpectedTy (operator->)
\* and the argument (to reach its canonical type): undefined when either
\* is null.
IsEqualUndefined(R, ExpectedTy) ==
  R.ExpectedTy = NullType \/ ExpectedTy = NullType

\* llvm::any_of(Results, IsEqual) (line 34): scans in order and stops at the
\* first element for which IsEqual is true.  An undefined comparison may
\* end the process ("crash") or yield either truth value.  The set of
\* outcomes of the whole scan.
RECURSIVE any_of(_, _)
any_of(Rs, ExpectedTy) ==
  IF Rs = <<>> THEN {"false"}
  ELSE IF IsEqualUndefined(Head(Rs), ExpectedTy)
       THEN {"crash", "true"} \cup any_of(Tail(Rs), ExpectedTy)
       ELSE IF isEqual(Head(Rs).ExpectedTy, ExpectedTy)
            THEN {"true"}
            ELSE any_of(Tail(Rs), ExpectedTy)

\* The Result pushed at line 36.
NewResult(S) ==
  [ExpectedTy |-> S.ty,
   IsImplicitSingleExpressionReturn |-> S.single,
   IsAsync |-> S.async]

\* Lines 24-38.
sawSolutionImpl ==
  /\ pc = "idle"
  /\ ~crashed
  /\ Len(fed) < MaxSolutions
  /\ \E S \in Solutions :
       /\ fed' = Append(fed, S)
       /\ \E found \in any_of(Results, S.ty) :
            /\ crashed' = (found = "crash")
            /\ Results' = IF found = "false"
                          THEN Append(Results, NewResult(S))
                          ELSE Results
  /\ UNCHANGED <<ParentStmtKind, pc, idx, calls, deliveries>>

(* ---------------------------------------------------------------------- *)
(* deliverResults                                                          *)
(* ---------------------------------------------------------------------- *)

\* A call on the lookup engine (or the delivery routine): the callee, and
\* its arguments in a fixed shape (ty: the expected types; flag, flag2: the
\* boolean arguments; kind: the statement kind).
Call(fn, ty, flag, flag2, kind) ==
  [fn |-> fn, ty |-> ty, flag |-> flag, flag2 |-> flag2, kind |-> kind]

\* Mutant of line 47: the mode enabled as soon as there is a result
\* (Results.size() > 0).
shouldCheckForDuplicatesCall_atLeastOne(Rs) ==
  Call("shouldCheckForDuplicates", <<>>, Len(Rs) > 0, FALSE, "None")

\* Mutant of line 47: the mode disabled on the single-result path only
\* (Results.size() != 1).
shouldCheckForDuplicatesCall_notOne(Rs) ==
  Call("shouldCheckForDuplicates", <<>>, Len(Rs) # 1, FALSE, "None")

\* Line 47: Lookup.shouldCheckForDuplicates(Results.size() > 1).
shouldCheckForDuplicatesCall(Rs) ==
  Call("shouldCheckForDuplicates", <<>>, Len(Rs) > 1, FALSE, "None")

\* Mutant of lines 50-52: Result.IsAsync passed where
\* Result.IsImplicitSingleExpressionReturn belongs.
setExpectedTypesCall_async(R) ==
  Call("setExpectedTypes", <<R.ExpectedTy>>, R.IsAsync, TRUE, "None")

\* Lines 50-52: Lookup.setExpectedTypes({Result.ExpectedTy},
\*   Result.IsImplicitSingleExpressionReturn, /*expectsNonVoid=*/true).
setExpectedTypesCall(R) ==
  Call("setExpectedTypes", <<R.ExpectedTy>>,
       R.IsImplicitSingleExpressionReturn, TRUE, "None")

\* Mutant of lines 53-54: the literal request issued in the place of the
\* availability request.
addPoundAvailableCall_literalFirst(R, Kind) ==
  Call("addPoundLiteralCompletions", <<>>, FALSE, FALSE, "None")

\* Line 53: Lookup.addPoundAvailable(ParentStmtKind).
addPoundAvailableCall(R, Kind) ==
  Call("addPoundAvailable", <<>>, FALSE, FALSE, Kind)

\* Line 54: Lookup.addPoundLiteralCompletions(/*needPound=*/false).
addPoundLiteralCompletionsCall(R) ==
  Call("addPoundLiteralCompletions", <<>>, FALSE, FALSE, "None")

\* Line 55: Lookup.addObjCPoundKeywordCompletions(/*needPound=*/false).
addObjCPoundKeywordCompletionsCall(R) ==
  Call("addObjCPoundKeywordCompletions", <<>>, FALSE, FALSE, "None")

\* Line 56: Lookup.getMacroCompletions(/*needPound=*/false).
getMacroCompletionsCall(R) ==
  Call("getMacroCompletions", <<>>, FALSE, FALSE, "None")

\* Line 59: deliverCompletionResults(CompletionCtx, Lookup, DC, Consumer).
deliverCompletionResultsCall ==
  Call("deliverCompletionResults", <<>>, FALSE, FALSE, "None")

\* The call deliverResults makes at position p of its call sequence on the
\* list Rs (lines 47-59): the mode first, then five calls per element in
\* list order, then the delivery routine.
deliverResultsCallAt(Rs, Kind, p) ==
  IF p = 1 THEN shouldCheckForDuplicatesCall(Rs)
  ELSE IF p > 1 + 5 * Len(Rs) THEN deliverCompletionResultsCall
  ELSE LET R == Rs[((p - 2) \div 5) + 1]
           s == (p - 2) % 5
       IN CASE s = 0 -> setExpectedTypesCall(R)
            [] s = 1 -> addPoundAvailableCall(R, Kind)
            [] s = 2 -> addPoundLiteralCompletionsCall(R)
            [] s = 3 -> addObjCPoundKeywordCompletionsCall(R)
            [] OTHER -> getMacroCompletionsCall(R)

\* Lines 43-47: the local Lookup is constructed and its duplicate-checking
\* mode set; the range-for starts at the first element.
deliverResults_begin ==
  /\ pc = "idle"
  /\ ~crashed
  /\ deliveries < MaxDeliveries
  /\ calls' = <<shouldCheckForDuplicatesCall(Results)>>
  /\ idx' = 1
  /\ pc' = "setExpectedTypes"
  /\ UNCHANGED <<Results, ParentStmtKind, fed, crashed, deliveries>>

\* Lines 49-52: the loop has an element left; setExpectedTypes for it.
deliverResults_setExpectedTypes ==
  /\ pc = "setExpectedTypes"
  /\ idx <= Len(Results)
  /\ calls' = Append(calls, setExpectedTypesCall(Results[idx]))
  /\ pc' = "addPoundAvailable"
  /\ UNCHANGED <<Results, ParentStmtKind, fed, crashed, idx, deliveries>>

\* Line 53.
deliverResults_addPoundAvailable ==
  /\ pc = "addPoundAvailable"
  /\ calls' = Append(calls, addPoundAvailableCall(Results[idx], ParentStmtKind))
  /\ pc' = "addPoundLiteralCompletions"
  /\ UNCHANGED <<Results, ParentStmtKind, fed, crashed, idx, deliveries>>

\* Line 54.
deliverResults_addPoundLiteralCompletions ==
  /\ pc = "addPoundLiteralCompletions"
  /\ calls' = Append(calls, addPoundLiteralCompletionsCall(Results[idx]))
  /\ pc' = "addObjCPoundKeywordCompletions"
  /\ UNCHANGED <<Results, ParentStmtKind, fed, crashed, idx, deliveries>>

\* Line 55.
deliverResults_addObjCPoundKeywordCompletions ==
  /\ pc = "addObjCPoundKeywordCompletions"
  /\ calls' = Append(calls, addObjCPoundKeywordCompletionsCall(Results[idx]))
  /\ pc' = "getMacroCompletions"
  /\ UNCHANGED <<Results, ParentStmtKind, fed, crashed, idx, deliveries>>

\* Lines 56-57: the last call of the loop body, then the next element.
deliverResults_getMacroCompletions ==
  /\ pc = "getMacroCompletions"
  /\ calls' = Append(calls, getMacroCompletionsCall(Results[idx]))
  /\ idx' = idx + 1
  /\ pc' = "setExpectedTypes"
  /\ UNCHANGED <<Results, ParentStmtKind, fed, crashed, deliveries>>

\* Mutant of lines 49, 59: the loop left one element early.
deliverResults_deliverCompletionResults_early ==
  /\ pc = "setExpectedTypes"
  /\ idx >= Len(Results)
  /\ calls' = Append(calls, deliverCompletionResultsCall)
  /\ pc' = "return"
  /\ UNCHANGED <<Results, ParentStmtKind, fed, crashed, idx, deliveries>>

\* Lines 49, 59: the loop is over; the delivery routine is called.
deliverResults_deliverCompletionResults ==
  /\ pc = "setExpectedTypes"
  /\ idx > Len(Results)
  /\ calls' = Append(calls, deliverCompletionResultsCall)
  /\ pc' = "return"
  /\ UNCHANGED <<Results, ParentStmtKind, fed, crashed, idx, deliveries>>

\* Mutant of line 60: the result list consumed (cleared) by the delivery.
deliverResults_return_clears ==
  /\ pc = "return"
  /\ calls' = <<>>
  /\ idx' = 1
  /\ deliveries' = deliveries + 1
  /\ pc' = "idle"
  /\ Results' = <<>>
  /\ UNCHANGED <<ParentStmtKind, fed, crashed>>

\* Line 60: deliverResults returns; the local Lookup goes out of scope.
deliverResults_return ==
  /\ pc = "return"
  /\ calls' = <<>>
  /\ idx' = 1
  /\ deliveries' = deliveries + 1
  /\ pc' = "idle"
  /\ UNCHANGED <<Results, ParentStmtKind, fed, crashed>>

(* ---------------------------------------------------------------------- *)
(* Specification                                                           *)
(* ---------------------------------------------------------------------- *)

\* A freshly constructed collector: Results empty, ParentStmtKind given.
Init ==
  /\ Results = <<>>
  /\ ParentStmtKind \in StmtKinds
  /\ fed = <<>>
  /\ crashed = FALSE
  /\ pc = "idle"
  /\ idx = 1
  /\ calls = <<>>
  /\ deliveries = 0

Next ==
  \/ sawSolutionImpl
  \/ deliverResults_begin
  \/ deliverResults_setExpectedTypes
  \/ deliverResults_addPoundAvailable
  \/ deliverResults_addPoundLiteralCompletions
  \/ deliverResults_addObjCPoundKeywordCompletions
  \/ deliverResults_getMacroCompletions
  \/ deliverResults_deliverCompletionResults
  \/ deliverResults_return

Spec == Init /\ [][Next]_vars

(* ---------------------------------------------------------------------- *)
(* Properties of sawSolutionImpl                                           *)
(* ---------------------------------------------------------------------- *)

\* Two Type values denote the same type: the same canonical type, two null
\* Types being the same (null) value.
SameType(A, B) == A.canon = B.canon

\* Some entry of Rs has the type Ty.
Present(Rs, Ty) == \E i \in 1..Len(Rs) : SameType(Rs[i].ExpectedTy, Ty)

\* The list the deduplication is meant to build from the solutions ss:
\* one entry per distinct type, in the order of first appearance, with the
\* flags of the first solution of that type.
RECURSIVE FirstOccurrences(_, _)
FirstOccurrences(ss, acc) ==
  IF ss = <<>> THEN acc
  ELSE IF Present(acc, Head(ss).ty)
       THEN FirstOccurrences(Tail(ss), acc)
       ELSE FirstOccurrences(Tail(ss),
              Append(acc, [ExpectedTy |-> Head(ss).ty,
                           IsImplicitSingleExpressionReturn |-> Head(ss).single,
                           IsAsync |-> Head(ss).async]))

\* No solution fed so far had a null type for the completion expression.
NoNullFed == \A i \in 1..Len(fed) : fed[i].ty # NullType

\* C1: in every reachable state no two entries of Results have the same
\* ExpectedTy.
NoDuplicateExpectedTy ==
  \A i, j \in 1..Len(Results) :
    i # j => ~SameType(Results[i].ExpectedTy, Results[j].ExpectedTy)

\* C1 on the runs where no solution yields a null type: no two entries of
\* Results have the same canonical type.
NoDuplicateExpectedTy_NonNull == NoNullFed => NoDuplicateExpectedTy

\* C2: Results is the sequence of first occurrences of the distinct types
\* of the solutions fed, in the order first seen, each with the flags of the
\* first solution of its type.
ResultsAreFirstOccurrences == Results = FirstOccurrences(fed, <<>>)

\* C2 on the runs where no solution yields a null type.
ResultsAreFirstOccurrences_NonNull == NoNullFed => ResultsAreFirstOccurrences

\* The step is a call of sawSolutionImpl.
IsSawSolutionStep == Len(fed') = Len(fed) + 1

\* What C6 asks of one call of sawSolutionImpl: a solution whose type is
\* already in the list leaves the list as it is, and after the call the type
\* of the solution is in the list (so that a second call with the same type
\* leaves what the first call left).
IdempotentStep ==
  IsSawSolutionStep =>
    /\ Present(Results, fed'[Len(fed')].ty) => Results' = Results
    /\ Present(Results', fed'[Len(fed')].ty)

\* C6: sawSolutionImpl is idempotent per expected type: a call whose type is
\* already present changes nothing, whatever its flags, and two calls with
\* one type leave what the first of them leaves.
RecordSolutionIdempotent == [][IdempotentStep]_vars

\* C6 on the runs where no solution yields a null type.
RecordSolutionIdempotent_NonNull ==
  [][(\A i \in 1..Len(fed') : fed'[i].ty # NullType) => IdempotentStep]_vars

\* What C8 asks of one call of sawSolutionImpl: it completes, and the list
\* is left unchanged or grown by one entry, the solution's.
CompletesStep ==
  IsSawSolutionStep =>
    /\ ~crashed'
    /\ \/ Results' = Results
       \/ Results' = Append(Results, NewResult(fed'[Len(fed')]))

\* C8: sawSolutionImpl has no failure path: every call, a solution with a
\* null expected type included, completes without error and appends one
\* entry or leaves the list unchanged.
NoFailurePath == [][CompletesStep]_vars

\* C8 on the runs where no solution yields a null type.
NoFailurePath_NonNull ==
  [][(\A i \in 1..Len(fed') : fed'[i].ty # NullType) => CompletesStep]_vars

\* Reached: two solutions of one canonical type and different sugar and
\* flags were fed, and the list holds the first of them only.
DuplicateDropped ==
  /\ Len(fed) = 2
  /\ fed[1].ty = TyInt /\ fed[2].ty = TyIntAlias
  /\ fed[1].async # fed[2].async
  /\ Results = <<NewResult(fed[1])>>

(* ---------------------------------------------------------------------- *)
(* Properties of deliverResults                                            *)
(* ---------------------------------------------------------------------- *)

\* deliverResults is running (or at its return, the local Lookup alive).
Delivering == pc # "idle"

\* The requests for completions made on the lookup engine.
CompletionRequests ==
  {"addPoundAvailable", "addPoundLiteralCompletions",
   "addObjCPoundKeywordCompletions", "getMacroCompletions"}

\* The calls made on the lookup engine: configuration and requests.
LookupEngineCalls ==
  {"shouldCheckForDuplicates", "setExpectedTypes"} \cup CompletionRequests

\* C3: the duplicate-checking mode is the first call on the lookup engine,
\* disabled with exactly one result and enabled with two or more, and no
\* later call of the run sets it again.
DuplicateCheckModeSetOnce ==
  Delivering =>
    /\ Len(calls) >= 1
    /\ calls[1].fn = "shouldCheckForDuplicates"
    /\ Len(Results) = 1 => calls[1].flag = FALSE
    /\ Len(Results) >= 2 => calls[1].flag = TRUE
    /\ \A p \in 2..Len(calls) : calls[p].fn # "shouldCheckForDuplicates"

\* Reached: a run over two results at its return (mode enabled).
DeliveredTwoResults ==
  /\ pc = "return"
  /\ Len(Results) = 2
  /\ calls[1].flag = TRUE

\* The k-th (0-based) call of the loop body for the result R.
BodyCall(R, k) ==
  CASE k = 0 -> [fn |-> "setExpectedTypes", ty |-> <<R.ExpectedTy>>,
                 flag |-> R.IsImplicitSingleExpressionReturn,
                 flag2 |-> TRUE, kind |-> "None"]
    [] k = 1 -> [fn |-> "addPoundAvailable", ty |-> <<>>, flag |-> FALSE,
                 flag2 |-> FALSE, kind |-> ParentStmtKind]
    [] k = 2 -> [fn |-> "addPoundLiteralCompletions", ty |-> <<>>,
                 flag |-> FALSE, flag2 |-> FALSE, kind |-> "None"]
    [] k = 3 -> [fn |-> "addObjCPoundKeywordCompletions", ty |-> <<>>,
                 flag |-> FALSE, flag2 |-> FALSE, kind |-> "None"]
    [] OTHER -> [fn |-> "getMacroCompletions", ty |-> <<>>,
                 flag |-> FALSE, flag2 |-> FALSE, kind |-> "None"]

\* C4: after the mode, the calls come in blocks of five, the r-th block for
\* the r-th result: setExpectedTypes (its type, its single-expression flag,
\* expectsNonVoid = true), addPoundAvailable, addPoundLiteralCompletions,
\* addObjCPoundKeywordCompletions, getMacroCompletions; at the return every
\* result has had its block, and no request lies outside the blocks.
PerResultCallOrder ==
  Delivering =>
    /\ \A p \in 2..Len(calls) :
         IF p <= 1 + 5 * Len(Results)
         THEN calls[p] = BodyCall(Results[((p - 2) \div 5) + 1], (p - 2) % 5)
         ELSE calls[p].fn \notin LookupEngineCalls
    /\ pc = "return" => Len(calls) >= 1 + 5 * Len(Results)

\* Reached: the second result's block is complete, after the first's.
SecondBlockComplete ==
  /\ pc = "return"
  /\ Len(Results) = 2
  /\ Results[1].ExpectedTy # Results[2].ExpectedTy
  /\ calls[2].ty = <<Results[1].ExpectedTy>>
  /\ calls[7].ty = <<Results[2].ExpectedTy>>
  /\ calls[11].fn = "getMacroCompletions"

\* C5 as stated: with an empty result list, deliverResults makes no call on
\* the lookup engine at all (no configuration call, no request).
EmptyDeliverMakesNoLookupCall ==
  (Delivering /\ Results = <<>>) =>
    \A p \in 1..Len(calls) : calls[p].fn \notin LookupEngineCalls

\* C5 amended: with an empty result list, deliverResults makes no
\* setExpectedTypes call and no completion request; it sets the
\* duplicate-checking mode once, to disabled, and calls the delivery
\* routine once.
EmptyDeliverSetsModeOnly ==
  (Delivering /\ Results = <<>>) =>
    /\ \A p \in 1..Len(calls) :
         calls[p].fn \notin ({"setExpectedTypes"} \cup CompletionRequests)
    /\ Len(calls) >= 1
    /\ calls[1].fn = "shouldCheckForDuplicates" /\ calls[1].flag = FALSE
    /\ pc = "return" =>
         /\ Len(calls) = 2
         /\ calls[2].fn = "deliverCompletionResults"

\* Reached: a run over the empty list at its return.
DeliveredEmpty == pc = "return" /\ Results = <<>> /\ Len(calls) = 2

\* C7: the delivery routine is called exactly once per run, as the last
\* call, after the five calls of every result.
DeliveredOnceAtEnd ==
  Delivering =>
    /\ \A p \in 1..Len(calls) :
         calls[p].fn = "deliverCompletionResults" =>
           /\ pc = "return"
           /\ p = Len(calls)
           /\ p = 2 + 5 * Len(Results)
    /\ pc = "return" => calls[Len(calls)].fn = "deliverCompletionResults"

\* Reached: the delivery routine called after the requests of a result.
DeliveredAfterRequests ==
  /\ pc = "return"
  /\ Len(Results) >= 1
  /\ calls[Len(calls) - 1].fn = "getMacroCompletions"
  /\ calls[Len(calls)].fn = "deliverCompletionResults"

\* The lists that agree with Rs on every entry's ExpectedTy and
\* IsImplicitSingleExpressionReturn and may differ in IsAsync.
IsAsyncVariants(Rs) ==
  {[i \in 1..Len(Rs) |-> [Rs[i] EXCEPT !.IsAsync = f[i]]] :
     f \in [1..Len(Rs) -> BOOLEAN]}

\* C9: the calls of a run are those deliverResults makes on any list that
\* differs from Results in IsAsync values only.
IsAsyncDoesNotInfluenceDelivery ==
  Delivering =>
    \A Rs \in IsAsyncVariants(Results) :
      \A p \in 1..Len(calls) :
        calls[p] = deliverResultsCallAt(Rs, ParentStmtKind, p)

\* Reached: a complete run over a list with both IsAsync values in it.
DeliveredMixedAsync ==
  /\ pc = "return"
  /\ Len(Results) = 2
  /\ Results[1].IsAsync /\ ~Results[2].IsAsync

\* C10: no step of deliverResults changes Results: a later run, or a later
\* sawSolutionImpl, finds the entries accumulated before.
DeliverLeavesResults ==
  [][(pc # "idle" \/ pc' # "idle") => Results' = Results]_vars

\* Reached: a second run at its return, over a list that is not empty.
SecondDeliveryOverSameList ==
  /\ deliveries = 1
  /\ pc = "return"
  /\ Len(Results) >= 1
  /\ Len(calls) = 2 + 5 * Len(Results)

====
